---- MODULE Spec2Model ----
(***************************************************************************)
(* Asynchronous work dispatching of the TFRT host runtime                  *)
(* (include/tfrt/host_context/async_dispatch.h): continuation              *)
(* registration (AndThen), the blocking join (AwaitRange / Await), the     *)
(* value-returning work submissions (EnqueueWork, EnqueueBlockingWork,     *)
(* RunBlockingWork) and the ready-set continuation (RunWhenReady).         *)
(*                                                                         *)
(* Two families of future handles (AsyncValue) are modelled:               *)
(*   - producer handles 1..NumHandles, resolved by independent producer    *)
(*     threads with a value or an error; the joins and the ready sets      *)
(*     range over them;                                                    *)
(*   - one result handle per submission, NumHandles + s, created by the    *)
(*     value-returning submission s.                                       *)
(***************************************************************************)
EXTENDS Integers, Sequences, FiniteSets

\* ------------------------------------------------------------------ bounds

NumHandles == 2
MaxRange == 2
NumAwaiters == 2
NumReady == 2
NumSubmitters == 2
NumRegistrants == 2
NumWorkers == 1
MaxPoolRange == 1

ProducerHandles == 1..NumHandles
Awaiters == 1..NumAwaiters
ReadySets == 1..NumReady
Submitters == 1..NumSubmitters
Registrants == 1..NumRegistrants

ResultHandle(s) == NumHandles + s
Handles == 1..(NumHandles + NumSubmitters)

\* The ranges a join or a ready set is called with: every sequence of producer
\* handles of length 0..MaxRange, repetitions included.
RECURSIVE SeqsUpTo(_, _)
SeqsUpTo(S, n) ==
  IF n = 0 THEN {<<>>}
  ELSE LET shorter == SeqsUpTo(S, n - 1)
       IN shorter \cup {Append(q, x) : q \in {r \in shorter : Len(r) = n - 1}, x \in S}

Ranges == SeqsUpTo(ProducerHandles, MaxRange)

\* The values a producer resolves its handle with, and the arguments a and b
\* captured by a submitted callable [a, b] { return a + b; }.
ProducerValues == {7}
ArgsA == {1, 2}
ArgsB == {2}

\* A continuation is <<"latch", a>> (the lambda of AwaitRange invocation a),
\* <<"ready", j>> (the counter decrement of RunWhenReady invocation j) or
\* <<"then", r>> (the callback a caller r passed to AndThen directly).
Continuations ==
  ({"latch"} \X Awaiters) \cup ({"ready"} \X ReadySets) \cup ({"then"} \X Registrants)

\* The three handle representations AndThen is overloaded for.
HandleForms == {"AsyncValue*", "RCReference<AsyncValue>", "AsyncValueRef<T>"}

\* A result type is the list of wrappers around the element type: <<>> is T and
\* <<"Expected">> is Expected<T>.
ReturnTypes == {<<>>, <<"Expected">>}

NoWaiters == [c \in Continuations |-> 0]

VARIABLES
  avState,      \* handle -> "unresolved" | "value" | "error"
  avValue,      \* handle -> the value it holds (0 while it holds none)
  avError,      \* handle -> the error message it holds ("" while it holds none)
  waiters,      \* handle -> bag of continuations waiting for its resolution
  running,      \* handle -> bag of continuations its resolving thread still has to run
  awPc,         \* awaiter -> "idle" | "loop" | "wait" | "returned"
  awVals,       \* awaiter -> the range AwaitRange was called with
  awIdx,        \* awaiter -> position of the registration loop
  awInline,     \* awaiter -> registrations that found the handle already resolved
  latch,        \* awaiter -> count of its values_remaining latch
  rwPc,         \* ready set -> "idle" | "loop" | "returned"
  rwVals,       \* ready set -> the range RunWhenReady was called with
  rwIdx,        \* ready set -> position of the registration loop
  rwCounter,    \* ready set -> its shared counter
  rwCalls,      \* ready set -> number of invocations of the callee
  rwCaller,     \* ready set -> "none" | "caller" | "resolver": who invoked the callee
  sbPc,         \* submitter -> "idle" | "submitted" | "returned"
  sbOp,         \* submitter -> the submission operation it called
  sbA, sbB,     \* submitter -> the captured arguments of its callable
  sbEnqueued,   \* submitter -> the local `enqueued`
  sbQueued,     \* submitter -> TRUE while its wrapped work sits in the work queue
  sbSync,       \* submitter -> TRUE if the substrate ran the work on the calling thread
  nInvoke,      \* submitter -> invocations of its callable
  nEmplace,     \* submitter -> result.emplace calls on its handle
  nSetError,    \* submitter -> result.SetError calls on its handle
  sbRetType,    \* submitter -> the return type of its callable
  sbOk,         \* submitter -> TRUE if its callable's Expected<T> holds a value
  sbElemType,   \* submitter -> the element type of the handle it was given
  cbPc,         \* registrant -> "idle" | "registered"
  cbHandle,     \* registrant -> the handle it called AndThen on
  cbForm,       \* registrant -> the handle representation it passed
  cbInline,     \* registrant -> TRUE if the handle was resolved when it registered
  cbRuns,       \* registrant -> invocations of its callback
  poolBusy,     \* number of the substrate's workers that are occupied
  poolTaken,    \* submitter -> a worker has taken the queued work and is running it
  awThread      \* awaiter -> "external" | "worker" | "released": the thread AwaitRange runs on

avVars == <<avState, avValue, avError, waiters, running>>
awVars == <<awPc, awVals, awIdx, awInline, latch>>
rwVars == <<rwPc, rwVals, rwIdx, rwCounter, rwCalls, rwCaller>>
sbVars == <<sbPc, sbOp, sbA, sbB, sbEnqueued, sbQueued, sbSync, nInvoke, nEmplace, nSetError>>
exVars == <<sbRetType, sbOk, sbElemType>>
cbVars == <<cbPc, cbHandle, cbForm, cbInline>>
plVars == <<poolBusy, poolTaken, awThread>>
auxVars == <<exVars, cbVars, plVars>>
vars == <<avVars, awVars, rwVars, sbVars, cbRuns, auxVars>>

Init ==
  /\ avState = [h \in Handles |-> "unresolved"]
  /\ avValue = [h \in Handles |-> 0]
  /\ avError = [h \in Handles |-> ""]
  /\ waiters = [h \in Handles |-> NoWaiters]
  /\ running = [h \in Handles |-> NoWaiters]
  /\ awPc = [a \in Awaiters |-> "idle"]
  /\ awVals = [a \in Awaiters |-> <<>>]
  /\ awIdx = [a \in Awaiters |-> 1]
  /\ awInline = [a \in Awaiters |-> 0]
  /\ latch = [a \in Awaiters |-> 0]
  /\ rwPc = [j \in ReadySets |-> "idle"]
  /\ rwVals = [j \in ReadySets |-> <<>>]
  /\ rwIdx = [j \in ReadySets |-> 1]
  /\ rwCounter = [j \in ReadySets |-> 0]
  /\ rwCalls = [j \in ReadySets |-> 0]
  /\ rwCaller = [j \in ReadySets |-> "none"]
  /\ sbPc = [s \in Submitters |-> "idle"]
  /\ sbOp = [s \in Submitters |-> "none"]
  /\ sbA = [s \in Submitters |-> 0]
  /\ sbB = [s \in Submitters |-> 0]
  /\ sbEnqueued = [s \in Submitters |-> FALSE]
  /\ sbQueued = [s \in Submitters |-> FALSE]
  /\ sbSync = [s \in Submitters |-> FALSE]
  /\ nInvoke = [s \in Submitters |-> 0]
  /\ nEmplace = [s \in Submitters |-> 0]
  /\ nSetError = [s \in Submitters |-> 0]
  /\ sbRetType = [s \in Submitters |-> <<>>]
  /\ sbOk = [s \in Submitters |-> TRUE]
  /\ sbElemType = [s \in Submitters |-> <<>>]
  /\ cbPc = [r \in Registrants |-> "idle"]
  /\ cbHandle = [r \in Registrants |-> 1]
  /\ cbForm = [r \in Registrants |-> "AsyncValue*"]
  /\ cbInline = [r \in Registrants |-> FALSE]
  /\ cbRuns = [r \in Registrants |-> 0]
  /\ poolBusy = 0
  /\ poolTaken = [s \in Submitters |-> FALSE]
  /\ awThread = [a \in Awaiters |-> "external"]

\* ------------------------------------------------------------ future handle

Resolved(h) == avState[h] /= "unresolved"

\* The handle leaves "unresolved" once: its state and payload are written and
\* the waiter list is handed, in the same atomic exchange, to the resolving
\* thread, which then runs the waiters one by one (RunWaiter).
ResolveAV(h, st, v, e) ==
  IF avState[h] = "unresolved"
  THEN /\ avState' = [avState EXCEPT ![h] = st]
       /\ avValue' = [avValue EXCEPT ![h] = v]
       /\ avError' = [avError EXCEPT ![h] = e]
       /\ running' = [running EXCEPT ![h] = waiters[h]]
       /\ waiters' = [waiters EXCEPT ![h] = NoWaiters]
  ELSE UNCHANGED avVars

\* Mutant of CountDown: the lambda holds a copy of the latch ([values_remaining]
\* instead of [&values_remaining]), so the caller's latch is not decremented.
CountDown_OnCopy(a) == UNCHANGED latch

\* Mutant of CountDown: the latch is one object shared by all invocations
\* instead of a local of each AwaitRange call.
CountDown_Shared(a) == latch' = [latch EXCEPT ![1] = @ - 1]

\* values_remaining.count_down() of the lambda registered by AwaitRange.
CountDown(a) == latch' = [latch EXCEPT ![a] = @ - 1]

\* Mutant of ReadyDecrement: the callee runs at every decrement.
ReadyDecrement_EveryTime(j, who) ==
  /\ rwCounter' = [rwCounter EXCEPT ![j] = @ - 1]
  /\ rwCalls' = [rwCalls EXCEPT ![j] = @ + 1]
  /\ rwCaller' = [rwCaller EXCEPT ![j] = who]

\* The decrement-and-check-zero of a ready set's shared counter: the thread
\* that brings the counter to zero invokes the callee.
ReadyDecrement(j, who) ==
  /\ rwCounter' = [rwCounter EXCEPT ![j] = @ - 1]
  /\ IF rwCounter[j] - 1 = 0
     THEN /\ rwCalls' = [rwCalls EXCEPT ![j] = @ + 1]
          /\ rwCaller' = [rwCaller EXCEPT ![j] = who]
     ELSE UNCHANGED <<rwCalls, rwCaller>>

\* Running one continuation, on thread `who`.
RunContinuation(c, who) ==
  CASE c[1] = "latch" ->
         CountDown(c[2]) /\ UNCHANGED <<rwCounter, rwCalls, rwCaller, cbRuns>>
    [] c[1] = "ready" ->
         ReadyDecrement(c[2], who) /\ UNCHANGED <<latch, cbRuns>>
    [] c[1] = "then" ->
         /\ cbRuns' = [cbRuns EXCEPT ![c[2]] = @ + 1]
         /\ UNCHANGED <<latch, rwCounter, rwCalls, rwCaller>>

\* Mutant of AndThen: the continuation always joins the waiter list, also when
\* the handle is already resolved.
AndThen_NeverInline(h, c) ==
  /\ waiters' = [waiters EXCEPT ![h][c] = @ + 1]
  /\ UNCHANGED <<avState, avValue, avError, running, latch, rwCounter, rwCalls, rwCaller, cbRuns>>

\* Mutant of AndThen: only a handle holding a value counts as resolved, so a
\* continuation registered on a handle that holds an error just joins the list.
AndThen_ConcreteOnly(h, c) ==
  IF avState[h] = "value"
  THEN RunContinuation(c, "caller") /\ UNCHANGED avVars
  ELSE /\ waiters' = [waiters EXCEPT ![h][c] = @ + 1]
       /\ UNCHANGED <<avState, avValue, avError, running, latch, rwCounter, rwCalls, rwCaller, cbRuns>>

\* AndThen(value, f): f runs on the calling thread if the handle is already
\* resolved, and joins the handle's waiter list otherwise.
AndThen(h, c) ==
  IF Resolved(h)
  THEN RunContinuation(c, "caller") /\ UNCHANGED avVars
  ELSE /\ waiters' = [waiters EXCEPT ![h][c] = @ + 1]
       /\ UNCHANGED <<avState, avValue, avError, running, latch, rwCounter, rwCalls, rwCaller, cbRuns>>

\* A producer thread resolves its handle with a value or with an error.
Resolve(h) ==
  /\ h \in ProducerHandles
  /\ ~Resolved(h)
  /\ \/ \E v \in ProducerValues : ResolveAV(h, "value", v, "")
     \/ ResolveAV(h, "error", 0, "producer failed")
  /\ UNCHANGED <<awVars, rwVars, sbVars, cbRuns, auxVars>>

\* The thread that resolved h runs one of the waiters it took from h.
RunWaiter(h) ==
  \E c \in Continuations :
    /\ running[h][c] > 0
    /\ running' = [running EXCEPT ![h][c] = @ - 1]
    /\ RunContinuation(c, "resolver")
    /\ UNCHANGED <<avState, avValue, avError, waiters>>
    /\ UNCHANGED <<awPc, awVals, awIdx, awInline, rwPc, rwVals, rwIdx, sbVars, auxVars>>

\* A caller registers its own callback through one of the three overloads,
\* AndThen(AsyncValue*, F&&), AndThen(const RCReference<AsyncValue>&, F&&) and
\* AndThen(const AsyncValueRef<T>&, F&&): each forwards to the handle's AndThen.
AndThen_Call(r) ==
  \E h \in ProducerHandles, form \in HandleForms :
    /\ cbPc[r] = "idle"
    /\ cbPc' = [cbPc EXCEPT ![r] = "registered"]
    /\ cbHandle' = [cbHandle EXCEPT ![r] = h]
    /\ cbForm' = [cbForm EXCEPT ![r] = form]
    /\ cbInline' = [cbInline EXCEPT ![r] = Resolved(h)]
    /\ AndThen(h, <<"then", r>>)
    /\ UNCHANGED <<awPc, awVals, awIdx, awInline, rwPc, rwVals, rwIdx, sbVars, exVars, plVars>>

\* ------------------------------------------------------------- AwaitRange

\* Mutant of LatchInit: the latch counts the distinct handles of the range.
LatchInit_Distinct(vals) == Cardinality({vals[i] : i \in 1..Len(vals)})

\* Mutant of LatchInit: the count is one short of the number of entries.
LatchInit_OffByOne(vals) == Len(vals) - 1

\* tfrt::latch values_remaining(std::distance(values.begin(), values.end()));
LatchInit(vals) == Len(vals)

\* Mutant of LoopEnd: the registration loop stops before the last entry.
LoopEnd_Short(vals) == Len(vals) - 1

\* The entries the registration loop visits: for (const auto& value : values).
LoopEnd(vals) == Len(vals)

AwaitRange_Begin(a) ==
  \E vals \in Ranges :
    /\ awPc[a] = "idle"
    /\ awVals' = [awVals EXCEPT ![a] = vals]
    /\ latch' = [latch EXCEPT ![a] = LatchInit(vals)]
    /\ awIdx' = [awIdx EXCEPT ![a] = 1]
    /\ awPc' = [awPc EXCEPT ![a] = IF 1 > LoopEnd(vals) THEN "wait" ELSE "loop"]
    /\ UNCHANGED <<awInline, avVars, rwVars, sbVars, cbRuns, auxVars>>

\* One iteration: AndThen(value, [&values_remaining] { values_remaining.count_down(); });
AwaitRange_Register(a) ==
  /\ awPc[a] = "loop"
  /\ AndThen(awVals[a][awIdx[a]], <<"latch", a>>)
  /\ awInline' = [awInline EXCEPT ![a] = IF Resolved(awVals[a][awIdx[a]]) THEN @ + 1 ELSE @]
  /\ awIdx' = [awIdx EXCEPT ![a] = @ + 1]
  /\ awPc' = [awPc EXCEPT ![a] = IF awIdx[a] + 1 > LoopEnd(awVals[a]) THEN "wait" ELSE "loop"]
  /\ UNCHANGED <<awVals, rwPc, rwVals, rwIdx, sbVars, auxVars>>

\* Mutant of LatchOpen: AwaitRange returns without waiting on the latch.
LatchOpen_NoWait(a) == TRUE

\* Mutant of LatchOpen: wait() lets the caller through one count too early.
LatchOpen_Early(a) == latch[a] <= 1

\* values_remaining.wait() returns once the count is zero.
LatchOpen(a) == latch[a] = 0

AwaitRange_Wait(a) ==
  /\ awPc[a] = "wait"
  /\ LatchOpen(a)
  /\ awPc' = [awPc EXCEPT ![a] = "returned"]
  /\ UNCHANGED <<awVals, awIdx, awInline, latch, avVars, rwVars, sbVars, cbRuns, auxVars>>

\* ----------------------------------------------------------- RunWhenReady

\* Mutant of RunWhenReady_Begin: no special case for the empty range.
RunWhenReady_Begin_NoEmptyCase(j) ==
  \E vals \in Ranges :
    /\ rwPc[j] = "idle"
    /\ rwVals' = [rwVals EXCEPT ![j] = vals]
    /\ rwIdx' = [rwIdx EXCEPT ![j] = 1]
    /\ rwCounter' = [rwCounter EXCEPT ![j] = Len(vals)]
    /\ rwPc' = [rwPc EXCEPT ![j] = IF Len(vals) = 0 THEN "returned" ELSE "loop"]
    /\ UNCHANGED <<rwCalls, rwCaller, avVars, awVars, sbVars, cbRuns, auxVars>>

\* The callee runs at once for an empty range; otherwise the shared counter
\* starts at the number of handles and the registration loop begins.
RunWhenReady_Begin(j) ==
  \E vals \in Ranges :
    /\ rwPc[j] = "idle"
    /\ rwVals' = [rwVals EXCEPT ![j] = vals]
    /\ rwIdx' = [rwIdx EXCEPT ![j] = 1]
    /\ rwCounter' = [rwCounter EXCEPT ![j] = Len(vals)]
    /\ IF Len(vals) = 0
       THEN /\ rwCalls' = [rwCalls EXCEPT ![j] = @ + 1]
            /\ rwCaller' = [rwCaller EXCEPT ![j] = "caller"]
            /\ rwPc' = [rwPc EXCEPT ![j] = "returned"]
       ELSE /\ rwPc' = [rwPc EXCEPT ![j] = "loop"]
            /\ UNCHANGED <<rwCalls, rwCaller>>
    /\ UNCHANGED <<avVars, awVars, sbVars, cbRuns, auxVars>>

\* One registration: a continuation on the handle that decrements the counter.
RunWhenReady_Register(j) ==
  /\ rwPc[j] = "loop"
  /\ AndThen(rwVals[j][rwIdx[j]], <<"ready", j>>)
  /\ rwIdx' = [rwIdx EXCEPT ![j] = @ + 1]
  /\ rwPc' = [rwPc EXCEPT ![j] = IF rwIdx[j] >= Len(rwVals[j]) THEN "returned" ELSE "loop"]
  /\ UNCHANGED <<rwVals, awPc, awVals, awIdx, awInline, sbVars, auxVars>>

\* -------------------------------------------------------- work submission

\* The callable of the examples: [a, b] { return a + b; }.
Work(a, b) == a + b

\* result.SetError(message) on the result handle of submission s.
SetError(s, msg) ==
  /\ nSetError' = [nSetError EXCEPT ![s] = @ + 1]
  /\ ResolveAV(ResultHandle(s), "error", 0, msg)

\* Mutant of WrappedWork: the handle is emplaced without the callable's result.
WrappedWork_Default(s, a, b) ==
  /\ nInvoke' = [nInvoke EXCEPT ![s] = @ + 1]
  /\ nEmplace' = [nEmplace EXCEPT ![s] = @ + 1]
  /\ ResolveAV(ResultHandle(s), "value", 0, "")

\* The wrapped work item [result, work]() mutable { result.emplace(work()); }.
WrappedWork(s, a, b) ==
  /\ nInvoke' = [nInvoke EXCEPT ![s] = @ + 1]
  /\ nEmplace' = [nEmplace EXCEPT ![s] = @ + 1]
  /\ ResolveAV(ResultHandle(s), "value", Work(a, b), "")

EnqueueBlockingWorkError == "Failed to enqueue blocking work."
RunBlockingWorkError == "Failed to run blocking work."

\* Mutant of EnqueueBlockingWork_Finish: the test of `enqueued` is inverted.
EnqueueBlockingWork_Finish_Inverted(s, enqueued) ==
  IF enqueued
  THEN SetError(s, EnqueueBlockingWorkError)
  ELSE UNCHANGED <<nSetError, avVars>>

\* Mutant of EnqueueBlockingWork_Finish: a rejection is not reported at all.
EnqueueBlockingWork_Finish_Silent(s, enqueued) ==
  UNCHANGED <<nSetError, avVars>>

\* if (!enqueued) { result.SetError("Failed to enqueue blocking work."); } return result;
EnqueueBlockingWork_Finish(s, enqueued) ==
  IF ~enqueued
  THEN SetError(s, EnqueueBlockingWorkError)
  ELSE UNCHANGED <<nSetError, avVars>>

\* Mutant of RunBlockingWork_Finish: the error is set whatever `enqueued` says.
RunBlockingWork_Finish_Always(s, enqueued) ==
  SetError(s, RunBlockingWorkError)

\* Mutant of RunBlockingWork_Finish: the test of `enqueued` is inverted.
RunBlockingWork_Finish_Inverted(s, enqueued) ==
  IF enqueued
  THEN SetError(s, RunBlockingWorkError)
  ELSE UNCHANGED <<nSetError, avVars>>

\* if (!enqueued) { result.SetError("Failed to run blocking work."); } return result;
RunBlockingWork_Finish(s, enqueued) ==
  IF ~enqueued
  THEN SetError(s, RunBlockingWorkError)
  ELSE UNCHANGED <<nSetError, avVars>>

\* The call of a submission operation up to the return of the substrate's
\* enqueue primitive: the result handle is created unconstructed and the wrapped
\* work is handed to the substrate, which answers as its contract allows.
Submit(s, op, a, b, accepted, sync) ==
  /\ sbPc[s] = "idle"
  /\ sbPc' = [sbPc EXCEPT ![s] = "submitted"]
  /\ sbOp' = [sbOp EXCEPT ![s] = op]
  /\ sbA' = [sbA EXCEPT ![s] = a]
  /\ sbB' = [sbB EXCEPT ![s] = b]
  /\ sbEnqueued' = [sbEnqueued EXCEPT ![s] = accepted]
  /\ sbSync' = [sbSync EXCEPT ![s] = sync]
  /\ sbQueued' = [sbQueued EXCEPT ![s] = accepted /\ ~sync]
  /\ IF sync
     THEN WrappedWork(s, a, b)
     ELSE UNCHANGED <<nInvoke, nEmplace, avVars>>
  /\ UNCHANGED <<nSetError, awVars, rwVars, cbRuns, auxVars>>

\* EnqueueWork(const ExecutionContext&, F&&): non-blocking work is always queued.
EnqueueWork_ExecCtx(s) ==
  \E a \in ArgsA, b \in ArgsB : Submit(s, "EnqueueWorkExecCtx", a, b, TRUE, FALSE)

\* EnqueueWork(HostContext*, F&&): non-blocking work is always queued.
EnqueueWork_Host(s) ==
  \E a \in ArgsA, b \in ArgsB : Submit(s, "EnqueueWorkHost", a, b, TRUE, FALSE)

\* EnqueueBlockingWork(HostContext*, F&&): the substrate queues the work or
\* rejects it.
EnqueueBlockingWork(s) ==
  \E a \in ArgsA, b \in ArgsB, accepted \in BOOLEAN :
    Submit(s, "EnqueueBlockingWork", a, b, accepted, FALSE)

\* RunBlockingWork(HostContext*, F&&): the substrate queues the work, runs it on
\* the calling thread, or rejects it.
RunBlockingWork(s) ==
  \E a \in ArgsA, b \in ArgsB, accepted \in BOOLEAN, sync \in BOOLEAN :
    /\ sync => accepted
    /\ Submit(s, "RunBlockingWork", a, b, accepted, sync)

\* Mutant of EnqueueWork_Return: the call waits for its result before returning.
EnqueueWork_Return_Blocking(s) ==
  /\ sbPc[s] = "submitted"
  /\ sbOp[s] \in {"EnqueueWorkExecCtx", "EnqueueWorkHost"}
  /\ Resolved(ResultHandle(s))
  /\ sbPc' = [sbPc EXCEPT ![s] = "returned"]
  /\ UNCHANGED <<sbOp, sbA, sbB, sbEnqueued, sbQueued, sbSync, nInvoke, nEmplace, nSetError>>
  /\ UNCHANGED <<avVars, awVars, rwVars, cbRuns, auxVars>>

\* return result; of the two EnqueueWork overloads.
EnqueueWork_Return(s) ==
  /\ sbPc[s] = "submitted"
  /\ sbOp[s] \in {"EnqueueWorkExecCtx", "EnqueueWorkHost"}
  /\ sbPc' = [sbPc EXCEPT ![s] = "returned"]
  /\ UNCHANGED <<sbOp, sbA, sbB, sbEnqueued, sbQueued, sbSync, nInvoke, nEmplace, nSetError>>
  /\ UNCHANGED <<avVars, awVars, rwVars, cbRuns, auxVars>>

EnqueueBlockingWork_Return(s) ==
  /\ sbPc[s] = "submitted"
  /\ sbOp[s] = "EnqueueBlockingWork"
  /\ EnqueueBlockingWork_Finish(s, sbEnqueued[s])
  /\ sbPc' = [sbPc EXCEPT ![s] = "returned"]
  /\ UNCHANGED <<sbOp, sbA, sbB, sbEnqueued, sbQueued, sbSync, nInvoke, nEmplace>>
  /\ UNCHANGED <<awVars, rwVars, cbRuns, auxVars>>

RunBlockingWork_Return(s) ==
  /\ sbPc[s] = "submitted"
  /\ sbOp[s] = "RunBlockingWork"
  /\ RunBlockingWork_Finish(s, sbEnqueued[s])
  /\ sbPc' = [sbPc EXCEPT ![s] = "returned"]
  /\ UNCHANGED <<sbOp, sbA, sbB, sbEnqueued, sbQueued, sbSync, nInvoke, nEmplace>>
  /\ UNCHANGED <<awVars, rwVars, cbRuns, auxVars>>

\* A worker thread of the substrate takes the queued work of s and runs it.
Worker_Run(s) ==
  /\ sbQueued[s]
  /\ sbQueued' = [sbQueued EXCEPT ![s] = FALSE]
  /\ WrappedWork(s, sbA[s], sbB[s])
  /\ UNCHANGED <<sbPc, sbOp, sbA, sbB, sbEnqueued, sbSync, nSetError, awVars, rwVars, cbRuns, auxVars>>

\* ------------------------------------------------- callables returning Expected

\* Mutant of UnwrapExpected: the specialisation for Expected<T> is missing.
UnwrapExpected_Primary(t) == t

\* template <typename T> struct UnwrapExpected { using type = T; };
\* template <typename T> struct UnwrapExpected<Expected<T>> { using type = T; };
UnwrapExpected(t) == IF Len(t) > 0 /\ Head(t) = "Expected" THEN Tail(t) ELSE t

\* AsyncResultTypeT<F> = UnwrapExpected<std::result_of_t<F()>>::type
AsyncResultTypeT(ret) == UnwrapExpected(ret)

\* What a callable of return type ret gives back: a + b, bare or inside an
\* Expected<T>, or an Expected<T> that holds an error.
CallableResult(ret, a, b, ok) ==
  [type |-> ret, ok |-> (ret = <<>>) \/ ok, value |-> Work(a, b)]

\* result.emplace(x): a bare value is written as it is; an Expected<T> is
\* flattened, its value written as the value and its error as the error state.
Emplace(s, x) ==
  /\ nEmplace' = [nEmplace EXCEPT ![s] = @ + 1]
  /\ IF x.ok
     THEN ResolveAV(ResultHandle(s), "value", x.value, "")
     ELSE ResolveAV(ResultHandle(s), "error", 0, "callable failed")

\* The wrapped work item of a callable of return type ret:
\* [result, work]() mutable { result.emplace(work()); }.
WrappedWorkOf(s, ret, a, b, ok) ==
  /\ nInvoke' = [nInvoke EXCEPT ![s] = @ + 1]
  /\ Emplace(s, CallableResult(ret, a, b, ok))

\* EnqueueWork, either overload, with a callable of return type T or
\* Expected<T>: auto result = MakeUnconstructedAsyncValueRef<R>(...) with
\* R = AsyncResultTypeT<F>, and the wrapped work is queued.
EnqueueWork_Typed(s) ==
  \E op \in {"EnqueueWorkExecCtx", "EnqueueWorkHost"}, ret \in ReturnTypes,
     a \in ArgsA, b \in ArgsB, ok \in BOOLEAN :
    /\ (ret = <<>>) => ok
    /\ sbPc[s] = "idle"
    /\ sbPc' = [sbPc EXCEPT ![s] = "submitted"]
    /\ sbOp' = [sbOp EXCEPT ![s] = op]
    /\ sbA' = [sbA EXCEPT ![s] = a]
    /\ sbB' = [sbB EXCEPT ![s] = b]
    /\ sbEnqueued' = [sbEnqueued EXCEPT ![s] = TRUE]
    /\ sbSync' = [sbSync EXCEPT ![s] = FALSE]
    /\ sbQueued' = [sbQueued EXCEPT ![s] = TRUE]
    /\ sbRetType' = [sbRetType EXCEPT ![s] = ret]
    /\ sbOk' = [sbOk EXCEPT ![s] = ok]
    /\ sbElemType' = [sbElemType EXCEPT ![s] = AsyncResultTypeT(ret)]
    /\ UNCHANGED <<nInvoke, nEmplace, nSetError, avVars, awVars, rwVars, cbRuns, cbVars, plVars>>

\* A worker thread of the substrate takes the queued work of s and runs it.
Worker_RunTyped(s) ==
  /\ sbQueued[s]
  /\ sbQueued' = [sbQueued EXCEPT ![s] = FALSE]
  /\ WrappedWorkOf(s, sbRetType[s], sbA[s], sbB[s], sbOk[s])
  /\ UNCHANGED <<sbPc, sbOp, sbA, sbB, sbEnqueued, sbSync, nSetError>>
  /\ UNCHANGED <<awVars, rwVars, cbRuns, auxVars>>

\* ------------------------------------------ Await on a thread of the pool

ResultHandles == {ResultHandle(s) : s \in Submitters}

\* The ranges over the handles returned by EnqueueWork.
PoolRanges == SeqsUpTo(ResultHandles, MaxPoolRange)

\* The handle has been returned by a submission.
Submitted(h) == \E s \in Submitters : h = ResultHandle(s) /\ sbPc[s] /= "idle"

\* AwaitRange is entered over handles of submitted work, on a thread outside
\* the substrate or inside a task that occupies one of its workers:
\* tfrt::latch values_remaining(values.size());
Pool_AwaitRange_Begin(a, onWorker) ==
  \E vals \in PoolRanges :
    /\ awPc[a] = "idle"
    /\ \A i \in 1..Len(vals) : Submitted(vals[i])
    /\ onWorker => poolBusy < NumWorkers
    /\ awVals' = [awVals EXCEPT ![a] = vals]
    /\ latch' = [latch EXCEPT ![a] = LatchInit(vals)]
    /\ awIdx' = [awIdx EXCEPT ![a] = 1]
    /\ awPc' = [awPc EXCEPT ![a] = IF 1 > LoopEnd(vals) THEN "wait" ELSE "loop"]
    /\ awThread' = [awThread EXCEPT ![a] = IF onWorker THEN "worker" ELSE "external"]
    /\ poolBusy' = IF onWorker THEN poolBusy + 1 ELSE poolBusy
    /\ UNCHANGED <<awInline, avVars, rwVars, sbVars, cbRuns, exVars, cbVars, poolTaken>>

\* The task that called AwaitRange ends and gives its worker back.
Pool_Release(a) ==
  /\ awPc[a] = "returned"
  /\ awThread[a] = "worker"
  /\ awThread' = [awThread EXCEPT ![a] = "released"]
  /\ poolBusy' = poolBusy - 1
  /\ UNCHANGED <<avVars, awVars, rwVars, sbVars, cbRuns, exVars, cbVars, poolTaken>>

\* A free worker of the substrate takes the queued work of s.
Pool_Take(s) ==
  /\ sbQueued[s]
  /\ ~poolTaken[s]
  /\ poolBusy < NumWorkers
  /\ poolTaken' = [poolTaken EXCEPT ![s] = TRUE]
  /\ poolBusy' = poolBusy + 1
  /\ UNCHANGED <<avVars, awVars, rwVars, sbVars, cbRuns, exVars, cbVars, awThread>>

\* The worker runs the wrapped work it took and is free again.
Pool_Run(s) ==
  /\ poolTaken[s]
  /\ poolTaken' = [poolTaken EXCEPT ![s] = FALSE]
  /\ poolBusy' = poolBusy - 1
  /\ sbQueued' = [sbQueued EXCEPT ![s] = FALSE]
  /\ WrappedWork(s, sbA[s], sbB[s])
  /\ UNCHANGED <<sbPc, sbOp, sbA, sbB, sbEnqueued, sbSync, nSetError>>
  /\ UNCHANGED <<awVars, rwVars, cbRuns, exVars, cbVars, awThread>>

\* ---------------------------------------------------------- specifications

\* Producer threads and AwaitRange callers.
AwaitNext ==
  \/ \E h \in ProducerHandles : Resolve(h)
  \/ \E h \in ProducerHandles : RunWaiter(h)
  \/ \E a \in Awaiters : AwaitRange_Begin(a)
  \/ \E a \in Awaiters : AwaitRange_Register(a)
  \/ \E a \in Awaiters : AwaitRange_Wait(a)

AwaitSpec == Init /\ [][AwaitNext]_vars

\* Threads are scheduled: a caller inside AwaitRange takes its next step, and a
\* thread that resolved a handle goes on to run the waiters it took.
AwaitFairness ==
  /\ \A a \in Awaiters : WF_vars(AwaitRange_Register(a)) /\ WF_vars(AwaitRange_Wait(a))
  /\ \A h \in ProducerHandles : WF_vars(RunWaiter(h))

AwaitFairSpec == AwaitSpec /\ AwaitFairness

\* Producer threads and direct AndThen callers.
AndThenNext ==
  \/ \E h \in ProducerHandles : Resolve(h)
  \/ \E h \in ProducerHandles : RunWaiter(h)
  \/ \E r \in Registrants : AndThen_Call(r)

AndThenSpec == Init /\ [][AndThenNext]_vars

\* A thread that resolved a handle goes on to run the waiters it took.
AndThenFairness == \A h \in ProducerHandles : WF_vars(RunWaiter(h))

AndThenFairSpec == AndThenSpec /\ AndThenFairness

\* Producer threads and RunWhenReady callers.
ReadyNext ==
  \/ \E h \in ProducerHandles : Resolve(h)
  \/ \E h \in ProducerHandles : RunWaiter(h)
  \/ \E j \in ReadySets : RunWhenReady_Begin(j)
  \/ \E j \in ReadySets : RunWhenReady_Register(j)

ReadySpec == Init /\ [][ReadyNext]_vars

\* Submitting threads and the substrate's workers.
SubmitNext ==
  \/ \E s \in Submitters : EnqueueWork_ExecCtx(s)
  \/ \E s \in Submitters : EnqueueWork_Host(s)
  \/ \E s \in Submitters : EnqueueBlockingWork(s)
  \/ \E s \in Submitters : RunBlockingWork(s)
  \/ \E s \in Submitters : EnqueueWork_Return(s)
  \/ \E s \in Submitters : EnqueueBlockingWork_Return(s)
  \/ \E s \in Submitters : RunBlockingWork_Return(s)
  \/ \E s \in Submitters : Worker_Run(s)

SubmitSpec == Init /\ [][SubmitNext]_vars

\* Threads submitting callables of return type T or Expected<T> through
\* EnqueueWork, and the substrate's workers.
ExpectedNext ==
  \/ \E s \in Submitters : EnqueueWork_Typed(s)
  \/ \E s \in Submitters : EnqueueWork_Return(s)
  \/ \E s \in Submitters : Worker_RunTyped(s)

ExpectedSpec == Init /\ [][ExpectedNext]_vars

\* One RunWhenReady caller and one EnqueueWork caller, with the producer
\* threads and the substrate's workers.
NonBlockingNext ==
  \/ \E h \in ProducerHandles : Resolve(h)
  \/ \E h \in ProducerHandles : RunWaiter(h)
  \/ RunWhenReady_Begin(1)
  \/ RunWhenReady_Register(1)
  \/ EnqueueWork_ExecCtx(1)
  \/ EnqueueWork_Host(1)
  \/ EnqueueWork_Return(1)
  \/ Worker_Run(1)

NonBlockingSpec == Init /\ [][NonBlockingNext]_vars

\* Only the calling threads are scheduled: no producer has to resolve a handle
\* and no worker has to run the submitted work.
CallerFairness ==
  /\ \A j \in ReadySets : WF_vars(RunWhenReady_Register(j))
  /\ \A s \in Submitters : WF_vars(EnqueueWork_Return(s))

NonBlockingFairSpec == NonBlockingSpec /\ CallerFairness

\* Submitters, the workers of one pool, and AwaitRange callers on threads
\* inside and outside that pool.
PoolNext ==
  \/ \E s \in Submitters : EnqueueWork_Host(s)
  \/ \E s \in Submitters : EnqueueWork_Return(s)
  \/ \E s \in Submitters : Pool_Take(s)
  \/ \E s \in Submitters : Pool_Run(s)
  \/ \E h \in ResultHandles : RunWaiter(h)
  \/ \E a \in Awaiters, onWorker \in BOOLEAN : Pool_AwaitRange_Begin(a, onWorker)
  \/ \E a \in Awaiters : AwaitRange_Register(a)
  \/ \E a \in Awaiters : AwaitRange_Wait(a)
  \/ \E a \in Awaiters : Pool_Release(a)

PoolSpec == Init /\ [][PoolNext]_vars

\* Threads are scheduled, and a free worker takes queued work.
PoolFairness ==
  /\ \A s \in Submitters : WF_vars(Pool_Take(s)) /\ WF_vars(Pool_Run(s))
  /\ \A h \in ResultHandles : WF_vars(RunWaiter(h))
  /\ \A a \in Awaiters :
       WF_vars(AwaitRange_Register(a)) /\ WF_vars(AwaitRange_Wait(a)) /\ WF_vars(Pool_Release(a))

PoolFairSpec == PoolSpec /\ PoolFairness

\* A submitting thread reaches its return, and the substrate eventually runs
\* every work item it accepted.
SubmitFairness ==
  \A s \in Submitters :
    /\ WF_vars(EnqueueWork_Return(s))
    /\ WF_vars(EnqueueBlockingWork_Return(s))
    /\ WF_vars(RunBlockingWork_Return(s))
    /\ WF_vars(Worker_Run(s))

SubmitFairSpec == SubmitSpec /\ SubmitFairness

\* ------------------------------------------------------------------ claims

AllResolved(vals) == \A i \in 1..Len(vals) : Resolved(vals[i])

\* C1: AwaitRange returns only in a state where every handle of its range is
\* resolved, whatever the interleaving of resolutions and registrations.
C1_AwaitReturnsAfterAllResolved ==
  \A a \in Awaiters : awPc[a] = "returned" => AllResolved(awVals[a])

\* An AwaitRange that returned after finding one handle already resolved at
\* registration and another one still unresolved.
C1_Witness ==
  \E a \in Awaiters :
    /\ awPc[a] = "returned"
    /\ Len(awVals[a]) >= 2
    /\ awInline[a] >= 1
    /\ awInline[a] < Len(awVals[a])

\* C2: once every handle of its range is resolved, a thread inside AwaitRange
\* eventually returns; for each of the concurrent awaiters.
C2_AwaitEventuallyReturns ==
  \A a \in Awaiters :
    (awPc[a] /= "idle" /\ AllResolved(awVals[a])) ~> (awPc[a] = "returned")

\* Every awaiter has returned from an AwaitRange over the same two distinct
\* handles, all of which were resolved by their producers after registration.
C2_Witness ==
  /\ \A a \in Awaiters :
       /\ awPc[a] = "returned"
       /\ awInline[a] = 0
       /\ awVals[a] = awVals[1]
  /\ Len(awVals[1]) = 2
  /\ awVals[1][1] /= awVals[1][2]

\* C3: AwaitRange over an empty range never blocks: at the wait its latch is
\* zero and it has registered no continuation, whatever other threads do.
C3_EmptyAwaitNeverBlocks ==
  \A a \in Awaiters :
    (awPc[a] \in {"wait", "returned"} /\ Len(awVals[a]) = 0) =>
      /\ latch[a] = 0
      /\ awInline[a] = 0
      /\ \A h \in Handles : waiters[h][<<"latch", a>>] = 0 /\ running[h][<<"latch", a>>] = 0

\* An AwaitRange over the empty range returned while no handle is resolved.
C3_Witness ==
  \E a \in Awaiters :
    /\ awPc[a] = "returned"
    /\ awVals[a] = <<>>
    /\ \A h \in ProducerHandles : ~Resolved(h)

\* C4: when the substrate rejects the work of the value-returning
\* EnqueueBlockingWork, the handle the call returns is resolved to an error
\* whose message names the failure to enqueue blocking work.
C4_RejectedEnqueueBlockingWorkIsError ==
  \A s \in Submitters :
    (sbOp[s] = "EnqueueBlockingWork" /\ sbPc[s] = "returned" /\ ~sbEnqueued[s]) =>
      /\ avState[ResultHandle(s)] = "error"
      /\ avError[ResultHandle(s)] = "Failed to enqueue blocking work."

\* A rejected EnqueueBlockingWork has returned.
C4_Witness ==
  \E s \in Submitters :
    /\ sbOp[s] = "EnqueueBlockingWork"
    /\ sbPc[s] = "returned"
    /\ ~sbEnqueued[s]
    /\ nSetError[s] = 1

\* C5: a result handle is resolved at most once, either by the wrapped callable
\* (emplace) or by the rejection path (SetError), never by both.
C5_ResolvedByOnePath ==
  \A s \in Submitters :
    /\ nEmplace[s] + nSetError[s] <= 1
    /\ ~(nInvoke[s] >= 1 /\ nSetError[s] >= 1)
    /\ Resolved(ResultHandle(s)) <=> (nEmplace[s] + nSetError[s] = 1)

\* One submission ran its callable on the calling thread before the call
\* returned and another one was rejected: each handle was resolved once.
C5_Witness ==
  \E s, r \in Submitters :
    /\ sbOp[s] = "RunBlockingWork" /\ sbSync[s] /\ sbPc[s] = "returned"
    /\ nEmplace[s] = 1 /\ nSetError[s] = 0
    /\ sbPc[r] = "returned" /\ ~sbEnqueued[r]
    /\ nEmplace[r] = 0 /\ nSetError[r] = 1

\* C6: every handle a submission returns is eventually resolved, the work
\* having been accepted or rejected.
C6_HandleEventuallyResolved ==
  \A s \in Submitters : (sbPc[s] /= "idle") ~> Resolved(ResultHandle(s))

\* A rejected and an accepted submission have both returned a handle that is
\* now resolved.
C6_Witness ==
  \E s, r \in Submitters :
    /\ sbPc[s] = "returned" /\ ~sbEnqueued[s] /\ avState[ResultHandle(s)] = "error"
    /\ sbPc[r] = "returned" /\ sbEnqueued[r] /\ ~sbSync[r]
    /\ avState[ResultHandle(r)] = "value"

\* C7: the handle of an accepted submission of [a, b] { return a + b; } resolves
\* to a + b, and the callable is invoked once.
C7_ValueIsCallableResult ==
  \A s \in Submitters :
    /\ nInvoke[s] <= 1
    /\ avState[ResultHandle(s)] = "value" =>
         /\ avValue[ResultHandle(s)] = sbA[s] + sbB[s]
         /\ nInvoke[s] = 1
    /\ (sbPc[s] /= "idle" /\ sbEnqueued[s] /\ ~sbQueued[s]) =>
         avState[ResultHandle(s)] = "value"

\* Both EnqueueWork overloads have returned handles that hold their callables'
\* results.
C7_Witness ==
  \E s, r \in Submitters :
    /\ sbOp[s] = "EnqueueWorkExecCtx" /\ sbOp[r] = "EnqueueWorkHost"
    /\ sbPc[s] = "returned" /\ sbPc[r] = "returned"
    /\ avState[ResultHandle(s)] = "value" /\ avState[ResultHandle(r)] = "value"
    /\ avValue[ResultHandle(s)] /= avValue[ResultHandle(r)]

ReadyQuiet(j) == \A h \in Handles : running[h][<<"ready", j>>] = 0

\* C8: the callee of RunWhenReady is invoked at most once, only when all the
\* handles are resolved, and it has been invoked once all of them are resolved
\* and their resolving threads have run their waiters; for each ready set.
C8_CalleeFiresOnce ==
  \A j \in ReadySets :
    /\ rwCalls[j] <= 1
    /\ rwCalls[j] >= 1 => AllResolved(rwVals[j])
    /\ (rwPc[j] = "returned" /\ AllResolved(rwVals[j]) /\ ReadyQuiet(j)) => rwCalls[j] = 1

\* Every ready set was registered on the same two distinct handles and its
\* callee was invoked by a resolving thread.
C8_Witness ==
  /\ \A j \in ReadySets :
       /\ rwCalls[j] = 1
       /\ rwCaller[j] = "resolver"
       /\ rwVals[j] = rwVals[1]
  /\ Len(rwVals[1]) = 2
  /\ rwVals[1][1] /= rwVals[1][2]

\* C9: RunWhenReady over an empty range has invoked the callee, on the calling
\* thread, when it returns.
C9_EmptyReadySetFiresInCall ==
  \A j \in ReadySets :
    (rwPc[j] = "returned" /\ Len(rwVals[j]) = 0) =>
      rwCalls[j] = 1 /\ rwCaller[j] = "caller"

\* A RunWhenReady over the empty range returned while no handle is resolved.
C9_Witness ==
  \E j \in ReadySets :
    /\ rwPc[j] = "returned"
    /\ rwVals[j] = <<>>
    /\ rwCalls[j] = 1
    /\ \A h \in ProducerHandles : ~Resolved(h)

\* The accepted half of C10: the handle of an accepted RunBlockingWork is never
\* an error and, once the work has run, holds the callable's result.
C10_AcceptedCarriesResult ==
  \A s \in Submitters :
    (sbOp[s] = "RunBlockingWork" /\ sbEnqueued[s]) =>
      /\ avState[ResultHandle(s)] /= "error"
      /\ ~sbQueued[s] =>
           /\ avState[ResultHandle(s)] = "value"
           /\ avValue[ResultHandle(s)] = sbA[s] + sbB[s]

\* C10 as stated: a rejected RunBlockingWork returns a handle resolved to an
\* error with the same message as a rejected EnqueueBlockingWork, and an
\* accepted one carries the callable's result.
C10_SameMessageAsEnqueueBlockingWork ==
  /\ C10_AcceptedCarriesResult
  /\ \A s \in Submitters :
       (sbOp[s] = "RunBlockingWork" /\ sbPc[s] = "returned" /\ ~sbEnqueued[s]) =>
         /\ avState[ResultHandle(s)] = "error"
         /\ avError[ResultHandle(s)] = EnqueueBlockingWorkError

\* C10 (amended): a rejected RunBlockingWork returns a handle resolved to an
\* error with its own fixed message, "Failed to run blocking work.", which is
\* not the message of EnqueueBlockingWork; an accepted one carries the
\* callable's result.
C10_RunBlockingWorkAdmission ==
  /\ C10_AcceptedCarriesResult
  /\ \A s \in Submitters :
       (sbOp[s] = "RunBlockingWork" /\ sbPc[s] = "returned" /\ ~sbEnqueued[s]) =>
         /\ avState[ResultHandle(s)] = "error"
         /\ avError[ResultHandle(s)] = "Failed to run blocking work."
         /\ avError[ResultHandle(s)] /= EnqueueBlockingWorkError

\* A rejected RunBlockingWork has returned, and another RunBlockingWork ran its
\* callable on the calling thread.
C10_Witness ==
  \E s, r \in Submitters :
    /\ sbOp[s] = "RunBlockingWork" /\ sbPc[s] = "returned" /\ ~sbEnqueued[s]
    /\ nSetError[s] = 1
    /\ sbOp[r] = "RunBlockingWork" /\ sbSync[r] /\ avState[ResultHandle(r)] = "value"

HasState(vals, st) == \E i \in 1..Len(vals) : avState[vals[i]] = st

LatchQuiet(a) == \A h \in Handles : running[h][<<"latch", a>>] = 0

\* C11: a handle resolved with an error counts toward the join like one resolved
\* with a value: AwaitRange has not returned while one handle of its range holds
\* an error and another is unresolved, and once every handle is resolved, with a
\* value or an error, and the resolving threads have run their waiters, the
\* latch of a caller at the wait is zero.
C11_ErrorCountsAsResolved ==
  \A a \in Awaiters :
    /\ (HasState(awVals[a], "error") /\ HasState(awVals[a], "unresolved")) =>
         awPc[a] /= "returned"
    /\ (awPc[a] = "wait" /\ AllResolved(awVals[a]) /\ LatchQuiet(a)) => latch[a] = 0

\* An AwaitRange has returned over one handle that holds an error and one that
\* holds a value; the error was there before the call, the value came after.
C11_Witness ==
  \E a \in Awaiters :
    /\ awPc[a] = "returned"
    /\ Len(awVals[a]) = 2
    /\ avState[awVals[a][1]] = "error"
    /\ avState[awVals[a][2]] = "value"
    /\ awInline[a] = 1

\* C12: a continuation registered through any AndThen overload runs once: never
\* twice, not before its handle is resolved, as part of the registration when
\* the handle is already resolved, and eventually once the handle is resolved;
\* for every registration on a handle independently.
C12_ContinuationRunsOnce ==
  /\ [](\A r \in Registrants :
          /\ cbRuns[r] <= 1
          /\ cbRuns[r] = 1 => (cbPc[r] = "registered" /\ Resolved(cbHandle[r]))
          /\ (cbPc[r] = "registered" /\ cbInline[r]) => cbRuns[r] = 1)
  /\ \A r \in Registrants :
       (cbPc[r] = "registered" /\ Resolved(cbHandle[r])) ~> (cbRuns[r] = 1)

\* Two callers registered on the same handle through different overloads, one
\* before and one after its resolution, and each callback has run once.
C12_Witness ==
  \E r, q \in Registrants :
    /\ cbPc[r] = "registered" /\ cbPc[q] = "registered"
    /\ cbHandle[r] = cbHandle[q]
    /\ cbForm[r] = "AsyncValue*" /\ cbForm[q] = "AsyncValueRef<T>"
    /\ ~cbInline[r] /\ cbInline[q]
    /\ cbRuns[r] = 1 /\ cbRuns[q] = 1

RECURSIVE SumOver(_, _)
SumOver(S, f) ==
  IF S = {} THEN 0
  ELSE LET x == CHOOSE y \in S : TRUE IN f[x] + SumOver(S \ {x}, f)

\* The continuations of AwaitRange invocation a that are registered and have
\* not run yet: waiting on a handle, or taken by a resolving thread.
PendingCountDowns(a) ==
  SumOver(Handles, [h \in Handles |->
                      waiters[h][<<"latch", a>>] + running[h][<<"latch", a>>]])

\* The continuations of invocation a that have run: those registered so far
\* less those still pending.
CompletedCountDowns(a) == (awIdx[a] - 1) - PendingCountDowns(a)

\* C13: during AwaitRange over N handles the latch count is N minus the number
\* of the call's continuations that have run; it stays within 0..N and is zero
\* exactly when all N have run.
C13_LatchCountsCompletedContinuations ==
  \A a \in Awaiters :
    awPc[a] /= "idle" =>
      /\ latch[a] = Len(awVals[a]) - CompletedCountDowns(a)
      /\ latch[a] >= 0
      /\ latch[a] <= Len(awVals[a])
      /\ latch[a] = 0 <=> CompletedCountDowns(a) = Len(awVals[a])

\* A resolving thread has decremented the latch for the first entry while the
\* registration loop has not yet reached the second one.
C13_Witness ==
  \E a \in Awaiters :
    /\ awPc[a] = "loop"
    /\ Len(awVals[a]) = 2
    /\ awIdx[a] = 2
    /\ awInline[a] = 0
    /\ latch[a] = 1

\* C14: when the submitted callable returns Expected<T>, the handle has element
\* type T: once the work has run it holds the value of the Expected<T>, or is in
\* the error state if the Expected<T> holds an error; it is never a handle of
\* Expected<T>.
C14_ExpectedIsUnwrapped ==
  \A s \in Submitters :
    (sbPc[s] /= "idle" /\ sbRetType[s] = <<"Expected">>) =>
      /\ sbElemType[s] = <<>>
      /\ sbQueued[s] => ~Resolved(ResultHandle(s))
      /\ (~sbQueued[s] /\ sbOk[s]) =>
           /\ avState[ResultHandle(s)] = "value"
           /\ avValue[ResultHandle(s)] = sbA[s] + sbB[s]
      /\ (~sbQueued[s] /\ ~sbOk[s]) => avState[ResultHandle(s)] = "error"

\* Two callables returning Expected<T> have run: one held a value, the other an
\* error.
C14_Witness ==
  \E s, q \in Submitters :
    /\ sbRetType[s] = <<"Expected">> /\ sbRetType[q] = <<"Expected">>
    /\ sbOk[s] /\ avState[ResultHandle(s)] = "value"
    /\ ~sbOk[q] /\ avState[ResultHandle(q)] = "error"

\* C15: RunWhenReady and the non-blocking EnqueueWork do not block: with the
\* calling thread scheduled, and nothing assumed of the producers and the
\* workers, a call that has started returns.
C15_CallsReturnWithoutWaiting ==
  /\ \A j \in ReadySets : (rwPc[j] = "loop") ~> (rwPc[j] = "returned")
  /\ \A s \in Submitters :
       (sbPc[s] = "submitted" /\ sbOp[s] \in {"EnqueueWorkExecCtx", "EnqueueWorkHost"})
         ~> (sbPc[s] = "returned")

\* RunWhenReady has returned with a handle still unresolved and its callee not
\* run, and EnqueueWork has returned with its callable not run.
C15_Witness ==
  /\ rwPc[1] = "returned"
  /\ ~AllResolved(rwVals[1])
  /\ rwCalls[1] = 0
  /\ sbPc[1] = "returned"
  /\ sbQueued[1]
  /\ ~Resolved(ResultHandle(1))

\* C16: each AwaitRange invocation has a latch of its own. In every step the
\* latch of an invocation that is under way goes down by exactly the number of
\* that invocation's own continuations that ran in the step, so a continuation
\* of one join never counts toward another join.
C16_LatchIsPerInvocation ==
  [][\A a \in Awaiters :
       awPc[a] /= "idle" =>
         latch'[a] = latch[a] - (CompletedCountDowns(a)' - CompletedCountDowns(a))]_vars

\* Two invocations joined on the same handle, registered before it resolved;
\* one has returned while the other still waits for a second handle.
C16_Witness ==
  \E a, b \in Awaiters, h, g \in ProducerHandles :
    /\ a /= b /\ h /= g
    /\ awVals[a] = <<h>> /\ awVals[b] = <<h, g>>
    /\ awInline[a] = 0 /\ awInline[b] = 0
    /\ awPc[a] = "returned"
    /\ awPc[b] = "wait"
    /\ latch[b] = 1
    /\ ~Resolved(g)

\* Every worker of the pool is occupied by a task blocked in AwaitRange on a
\* handle that is not resolved.
PoolStarved ==
  /\ poolBusy = NumWorkers
  /\ \A s \in Submitters : ~poolTaken[s]
  /\ \A a \in Awaiters :
       awThread[a] = "worker" => awPc[a] \in {"loop", "wait"} /\ ~AllResolved(awVals[a])

\* C17: Await on a worker of the substrate that must run the resolving work can
\* deadlock: once every worker is occupied by such a waiter, the awaited handles
\* are never resolved and no waiter returns, however the threads are scheduled.
\* When every Await is called on a thread outside the substrate, each call
\* returns.
C17_AwaitOnWorkerCanDeadlock ==
  /\ [][PoolStarved => PoolStarved']_vars
  /\ ([](\A a \in Awaiters : awThread[a] = "external"))
       => (\A a \in Awaiters : (awPc[a] /= "idle") ~> (awPc[a] = "returned"))

\* All workers are occupied by waiters, and one of them awaits a handle whose
\* producing work is queued on the same pool.
C17_Witness ==
  /\ PoolStarved
  /\ \E a \in Awaiters, s \in Submitters :
       /\ awThread[a] = "worker"
       /\ awPc[a] = "wait"
       /\ awVals[a] = <<ResultHandle(s)>>
       /\ latch[a] = 1
       /\ sbQueued[s]
       /\ sbPc[s] = "returned"

HasDuplicate(vals) == \E i, j \in 1..Len(vals) : i < j /\ vals[i] = vals[j]

\* C19: AwaitRange over a range that names a handle more than once: the latch
\* starts at the number of entries, duplicates counted; the count never goes
\* below zero; the call returns only when every handle has resolved, and once
\* they all have resolved it does return, so the count does not stay above zero.
C19_DuplicateHandlesJoin ==
  \A a \in Awaiters :
    /\ [](HasDuplicate(awVals[a]) =>
            /\ (awPc[a] = "loop" /\ awIdx[a] = 1) => latch[a] = Len(awVals[a])
            /\ latch[a] >= 0
            /\ awPc[a] = "returned" => AllResolved(awVals[a]) /\ latch[a] = 0)
    /\ (HasDuplicate(awVals[a]) /\ AllResolved(awVals[a])) ~> (awPc[a] = "returned")

\* AwaitRange over a range that names one handle twice has returned; both
\* continuations were registered before the handle resolved and were fired by
\* its one resolution.
C19_Witness ==
  \E a \in Awaiters, h \in ProducerHandles :
    /\ awVals[a] = <<h, h>>
    /\ awInline[a] = 0
    /\ awPc[a] = "returned"
    /\ latch[a] = 0

====
